---------------------------- MODULE Spec2Model ----------------------------
(***************************************************************************)
(* A state-machine model of the AC073TC1 e-paper driver (src/src/epd) and  *)
(* of the main program that feeds it (src/src/main.rs).                    *)
(*                                                                         *)
(* The program is sequential.  pc is its call stack: a sequence of labels, *)
(* the head being the statement about to run, the rest the places the      *)
(* enclosing calls return to.  ret is the Result the last returning call   *)
(* handed to its caller.  Bytes are naturals in 0..255, line levels are    *)
(* the strings "low" and "high".                                           *)
(***************************************************************************)
EXTENDS Integers, Sequences, FiniteSets, TLC

VARIABLES
    pc,       \* call stack of labels
    ret,      \* Result returned by the last call: "none", "ok" or an error
    chip,     \* content of the identity EEPROM (environment)
    i2c,      \* I2C transactions issued so far
    buffer,   \* read_eeprom: the 30-byte local buffer
    eeprom,   \* the decoded EPDType, or NoDescriptor
    opened,   \* hardware resources acquired so far
    pins,     \* levels of the output lines cs, dc, reset
    buf,      \* Inky.buf: the frame buffer, buf[y][x]
    log,      \* panel traffic of the current API call (new or show)
    ii,       \* initialize_inky: index of the next acquisition
    su,       \* setup: index of the next statement of its script
    bw,       \* busy_wait: timeout, reads of the busy line, sleeps
    up,       \* update: its argument and the index of its next statement
    sc,       \* send_command: command and data
    sw,       \* spi_write: dc, values, written, the slice last offered
    mn,       \* main: quantized buffer, loop index, number of show calls
    qz        \* get_palette, crop_resize, quantize: arguments and locals

vars == <<pc, ret, chip, i2c, buffer, eeprom, opened, pins, buf, log,
          ii, su, bw, up, sc, sw, mn, qz>>

---------------------------------------------------------------------------
(* Bounds of the model. *)

\* show calls one run of the caller makes
MaxShows == 2
\* longest payload handed to spi_write in SpecSpi (beyond one 64-byte chunk)
MaxPayload == 66

Levels == {"low", "high"}

Min(a, b) == IF a < b THEN a ELSE b

---------------------------------------------------------------------------
(* Control stack. *)

Top == IF pc = <<>> THEN "halt" ELSE Head(pc)

\* continue at label l of the current function
Goto(l) == pc' = <<l>> \o Tail(pc)

\* enter a callee at label entry; it will return to label back
Call(entry, back) == pc' = <<entry, back>> \o Tail(pc)

\* return r to the caller
Return(r) == pc' = Tail(pc) /\ ret' = r

\* replace the whole stack: the process ends (exit, panic)
Halt(l) == pc' = <<l>>

---------------------------------------------------------------------------
(* Identity chip: src/src/epd/mod.rs *)

EEP_ADDRESS == 80
\* bytes block_read fills: &mut buffer[..29]
ReadLen == 29
\* let mut buffer: [u8; 30]
BufferLen == 30

NoDescriptor == [width |-> 0, height |-> 0, color |-> "none"]

\* enum EPDColor, #[repr(u8)]: the discriminants
ValidColorBytes == {1, 2, 3, 5}

EPDColor(b) ==
    CASE b = 1 -> "Black"
      [] b = 2 -> "Red"
      [] b = 3 -> "Yellow"
      [] b = 5 -> "SevenColour"
      [] OTHER -> "Invalid"

ColorNames == {EPDColor(b) : b \in ValidColorBytes}

\* u16 in native order: the driver runs on the little-endian Raspberry Pi
U16_BigEndian(lo, hi) == 256 * lo + hi
U16(lo, hi) == lo + 256 * hi

(* transmute::<[u8; 30], EPDType>: EPDType is #[repr(C)], so its fields lie *)
(* at offsets 0, 2, 4, 5, 6, 7, 8..28; offset 29 is padding.                *)
Transmute(b) ==
    [width |-> U16(b[1], b[2]),
     height |-> U16(b[3], b[4]),
     color |-> EPDColor(b[5]),
     pcb_variant |-> b[6],
     display_variant |-> b[7],
     eeprom_write_time_length |-> b[8],
     eeprom_write_time |-> SubSeq(b, 9, 29)]

(* A colour byte that is no discriminant of EPDColor makes the transmute    *)
(* undefined behaviour: the field then holds a value outside the enum, or   *)
(* reads as any of its variants.  No outcome is an error: read_eeprom can   *)
(* only return i2c::Error, and it has passed its last `?`.                  *)
TransmuteOutcomes(b) ==
    IF b[5] \in ValidColorBytes
    THEN {Transmute(b)}
    ELSE {[Transmute(b) EXCEPT !.color = c] : c \in ColorNames \cup {"Invalid"}}

\* the bytes of an EPDType value in memory, padding byte zero
ColorByte(c) == CHOOSE b \in ValidColorBytes : EPDColor(b) = c
Encode(d) ==
    <<d.width % 256, d.width \div 256, d.height % 256, d.height \div 256,
      ColorByte(d.color), d.pcb_variant, d.display_variant,
      d.eeprom_write_time_length>> \o d.eeprom_write_time \o <<0>>

eepVars == <<chip, i2c, buffer, eeprom>>
hwVars == <<opened, pins, buf, log>>
locVars == <<ii, su, bw, up, sc, sw, mn>>

\* i2c.set_slave_address(EEP_ADDRESS)?
read_eeprom_set_slave_address ==
    /\ Top = "re_set_slave_address"
    /\ i2c' = Append(i2c, <<"set_slave_address", EEP_ADDRESS>>)
    /\ \E ok \in BOOLEAN :
         IF ok THEN Goto("re_block_write") /\ ret' = ret
               ELSE Return("I2cError")
    /\ UNCHANGED <<chip, buffer, eeprom, hwVars, locVars, qz>>

\* i2c.block_write(0x00, &[0x00])?
read_eeprom_block_write ==
    /\ Top = "re_block_write"
    /\ i2c' = Append(i2c, <<"block_write", 0, <<0>> >>)
    /\ \E ok \in BOOLEAN :
         IF ok THEN Goto("re_block_read") /\ ret' = ret
               ELSE Return("I2cError")
    /\ UNCHANGED <<chip, buffer, eeprom, hwVars, locVars, qz>>

\* i2c.block_read(0x00, &mut buffer[..29])?; transmute(buffer); Ok(epd_type)
read_eeprom_block_read ==
    /\ Top = "re_block_read"
    /\ i2c' = Append(i2c, <<"block_read", 0, ReadLen>>)
    /\ \E ok \in BOOLEAN :
         IF ok
         THEN /\ buffer' = SubSeq(chip, 1, ReadLen)
                             \o [i \in 1..(BufferLen - ReadLen) |-> 0]
              /\ eeprom' \in TransmuteOutcomes(buffer')
              /\ Return("ok")
         ELSE /\ UNCHANGED <<buffer, eeprom>>
              /\ Return("I2cError")
    /\ UNCHANGED <<chip, hwVars, locVars, qz>>

---------------------------------------------------------------------------
(* Serial bus: src/src/epd/inky.rs, spi_write / send_data / send_command *)

\* bytes offered to the transport in one write: min(written + 64, len)
CHUNK == 64

NoBusyWait == [timeout |-> 0, entry |-> "none", slept |-> 0, last |-> "none"]
NoUpdate == [buf |-> <<>>, idx |-> 1]

(* log records what the driver does to the panel's lines, in order: a     *)
(* reset-line write, a sleep of setup, a busy wait that returned, and one   *)
(* entry per chip-select frame, opened by cs low, holding the level of dc   *)
(* and the bytes the transport accepted, closed by cs high.  A byte written *)
(* with cs high or after dc changed is kept apart as a stray entry.         *)
NewFrame == [k |-> "frame", dc |-> "unset", bytes |-> <<>>, open |-> TRUE]

LastOpen(acc) ==
    /\ acc # <<>>
    /\ acc[Len(acc)].k = "frame"
    /\ acc[Len(acc)].open

Take(acc, e) ==
    CASE e.k = "cs" /\ e.v = "low" -> Append(acc, NewFrame)
      [] e.k = "cs" /\ e.v = "high" ->
           IF LastOpen(acc) THEN [acc EXCEPT ![Len(acc)].open = FALSE]
           ELSE Append(acc, [k |-> "stray_cs"])
      [] e.k = "dc" ->
           IF LastOpen(acc) /\ acc[Len(acc)].bytes = <<>>
           THEN [acc EXCEPT ![Len(acc)].dc = e.v]
           ELSE Append(acc, [k |-> "stray_dc"])
      [] e.k = "bytes" ->
           IF LastOpen(acc) /\ e.cs = "low" /\ e.dc = acc[Len(acc)].dc
           THEN [acc EXCEPT ![Len(acc)].bytes = @ \o e.b]
           ELSE Append(acc, [k |-> "stray_bytes", b |-> e.b])
      [] OTHER -> Append(acc, e)

Emit(e) == log' = Take(log, e)
LevelInverted(b) == IF b THEN "low" ELSE "high"
Level(b) == IF b THEN "high" ELSE "low"

NoSpiWrite == [dc |-> FALSE, values |-> <<>>, written |-> 0,
               offered |-> <<>>, sent |-> <<>>, wrote |-> FALSE]
NoCommand == [command |-> 0, data |-> <<>>]
NoMain == [q |-> <<>>, ix |-> 0, shows |-> 0, printed |-> "none",
           prev |-> [has |-> FALSE, data |-> <<>>]]
NoQuantize == [fn |-> "none"]

\* &values[written..min(written + 64, values.len())]
Slice(values, written) ==
    SubSeq(values, written + 1, Min(written + CHUNK, Len(values)))

\* written += self.spi.write(..)?, the write having accepted n bytes
AdvanceByOffered(written, n, offeredLen) == written + offeredLen
Advance(written, n, offeredLen) == written + n

\* binding of spi_write's arguments, and `let mut written = 0`
EnterSpiWrite(dcArg, values) ==
    sw' = [NoSpiWrite EXCEPT !.dc = dcArg, !.values = values]

\* self.cs_pin.set_low()
spi_write_cs_low ==
    /\ Top = "sw_cs_low"
    /\ pins' = [pins EXCEPT !.cs = "low"]
    /\ Emit([k |-> "cs", v |-> "low"])
    /\ Goto("sw_set_dc")
    /\ UNCHANGED <<ret, eepVars, opened, buf, locVars, qz>>

\* if dc { self.dc_pin.set_high() } else { self.dc_pin.set_low() }
spi_write_set_dc ==
    /\ Top = "sw_set_dc"
    /\ pins' = [pins EXCEPT !.dc = Level(sw.dc)]
    /\ Emit([k |-> "dc", v |-> Level(sw.dc)])
    /\ Goto("sw_loop")
    /\ UNCHANGED <<ret, eepVars, opened, buf, locVars, qz>>

(* One iteration of `while written != values.len()` in which the transport *)
(* accepts n bytes of the slice offered, 1 <= n <= its length.              *)
spi_write_transfer ==
    /\ Top = "sw_loop"
    /\ sw.written # Len(sw.values)
    /\ LET slice == Slice(sw.values, sw.written) IN
       \E n \in 1..Len(slice) :
         /\ sw' = [sw EXCEPT !.offered = slice,
                             !.sent = @ \o SubSeq(slice, 1, n),
                             !.wrote = TRUE,
                             !.written = Advance(@, n, Len(slice))]
         /\ Emit([k |-> "bytes", b |-> SubSeq(slice, 1, n), cs |-> pins.cs,
                   dc |-> pins.dc])
    /\ UNCHANGED <<pc, ret, eepVars, opened, pins, buf, ii, su, bw,
                  up, sc, mn, qz>>

(* The same iteration with the transport refusing the write: `?` returns   *)
(* the error at once, before self.cs_pin.set_high().                        *)
spi_write_fail ==
    /\ Top = "sw_loop"
    /\ sw.written # Len(sw.values)
    /\ sw' = NoSpiWrite
    /\ Return("SpiError")
    /\ UNCHANGED <<eepVars, hwVars, ii, su, bw, up, sc, mn, qz>>

\* the loop is left: `written == values.len()`
spi_write_loop_exit ==
    /\ Top = "sw_loop"
    /\ sw.written = Len(sw.values)
    /\ Goto("sw_cs_high")
    /\ UNCHANGED <<ret, eepVars, hwVars, locVars, qz>>

\* self.cs_pin.set_high(); Ok(())
spi_write_cs_high ==
    /\ Top = "sw_cs_high"
    /\ pins' = [pins EXCEPT !.cs = "high"]
    /\ Emit([k |-> "cs", v |-> "high"])
    /\ sw' = NoSpiWrite
    /\ Return("ok")
    /\ UNCHANGED <<eepVars, opened, buf, ii, su, bw, up, sc, mn, qz>>

\* send_data: self.spi_write(true, data)?
send_data_call ==
    /\ Top = "sd_spi_write"
    /\ EnterSpiWrite(TRUE, sc.data)
    /\ Call("sw_cs_low", "sd_return")
    /\ UNCHANGED <<ret, eepVars, hwVars, ii, su, bw, up, sc, mn, qz>>

\* send_data: the `?` and Ok(())
send_data_return ==
    /\ Top = "sd_return"
    /\ Return(ret)
    /\ sc' = NoCommand
    /\ UNCHANGED <<eepVars, hwVars, ii, su, bw, up, sw, mn, qz>>

\* send_command: self.spi_write(false, &[command])?
send_command_call ==
    /\ Top = "sc_command"
    /\ EnterSpiWrite(FALSE, <<sc.command>>)
    /\ Call("sw_cs_low", "sc_data")
    /\ UNCHANGED <<ret, eepVars, hwVars, ii, su, bw, up, sc, mn, qz>>

\* send_command: the `?`, then self.send_data(data) as the value returned
send_command_data ==
    /\ Top = "sc_data"
    /\ IF ret = "ok"
       THEN Goto("sd_spi_write") /\ UNCHANGED <<ret, sc>>
       ELSE Return(ret) /\ sc' = NoCommand
    /\ UNCHANGED <<eepVars, hwVars, ii, su, bw, up, sw, mn, qz>>

\* binding of send_command's arguments
EnterSendCommand(command, data) ==
    sc' = [command |-> command, data |-> data]

---------------------------------------------------------------------------
(* Busy line: src/src/epd/inky.rs, busy_wait *)

\* self.busy_pin.is_high(): the level on which busy_wait sleeps first
EntryHeld(level) == level = "high"

\* self.busy_pin.is_low(): the level the polling loop waits out
PollSpinsHigh(level) == level = "high"
PollSpins(level) == level = "low"

\* binding of busy_wait's argument, in milliseconds
EnterBusyWait(ms) == bw' = [NoBusyWait EXCEPT !.timeout = ms]

\* if self.busy_pin.is_high() {
busy_wait_entry ==
    /\ Top = "bw_entry"
    /\ \E level \in Levels :
         /\ bw' = [bw EXCEPT !.entry = level, !.last = level]
         /\ IF EntryHeld(level) THEN Goto("bw_sleep") ELSE Goto("bw_poll")
    /\ UNCHANGED <<ret, eepVars, hwVars, ii, su, up, sc, sw, mn, qz>>

\* warn!(..); thread::sleep(timeout) }
busy_wait_sleep ==
    /\ Top = "bw_sleep"
    /\ bw' = [bw EXCEPT !.slept = @ + 1]
    /\ Goto("bw_poll")
    /\ UNCHANGED <<ret, eepVars, hwVars, ii, su, up, sc, sw, mn, qz>>

\* while self.busy_pin.is_low() {}
busy_wait_poll ==
    /\ Top = "bw_poll"
    /\ \E level \in Levels :
         /\ bw' = [bw EXCEPT !.last = level]
         /\ IF PollSpins(level) THEN pc' = pc ELSE Goto("bw_return")
    /\ UNCHANGED <<ret, eepVars, hwVars, ii, su, up, sc, sw, mn, qz>>

\* return Ok(())
busy_wait_return ==
    /\ Top = "bw_return"
    /\ Emit([k |-> "busy_wait", ms |-> bw.timeout])
    /\ bw' = NoBusyWait
    /\ Return("ok")
    /\ UNCHANGED <<eepVars, opened, pins, buf, ii, su, up, sc, sw, mn, qz>>

---------------------------------------------------------------------------
(* Panel commands: src/src/epd/inky.rs, lines 20-53 *)

AC073TC1_PSR == 0
AC073TC1_PWR == 1
AC073TC1_POF == 2
AC073TC1_POFS == 3
AC073TC1_PON == 4
AC073TC1_BTST1 == 5
AC073TC1_BTST2 == 6
AC073TC1_BTST3 == 8
AC073TC1_DTM == 16
AC073TC1_DRF == 18
AC073TC1_IPC == 19
AC073TC1_PLL == 48
AC073TC1_TSE == 65
AC073TC1_CDI == 80
AC073TC1_TCON == 96
AC073TC1_TRES == 97
AC073TC1_VDCS == 130
AC073TC1_T_VDCS == 132
AC073TC1_AGID == 134
AC073TC1_CMDH == 170
AC073TC1_CCSET == 224
AC073TC1_PWS == 227
AC073TC1_TSSET == 230

\* the statements setup and update are made of
Reset(v) == [op |-> "reset", v |-> v]
Sleep(ms) == [op |-> "sleep", ms |-> ms]
BusyWait(ms) == [op |-> "busy_wait", ms |-> ms]
Cmd(c, data) == [op |-> "send_command", c |-> c, data |-> data]
Setup == [op |-> "setup"]

---------------------------------------------------------------------------
(* Inky::setup *)

\* the reset pulse, lines 141-148
ResetPulseSingle == <<Reset("low"), Sleep(100), Reset("high")>>
ResetPulse ==
    <<Reset("low"), Sleep(100), Reset("high"), Sleep(100),
      Reset("low"), Sleep(100), Reset("high")>>

\* the init commands, lines 152-170
InitCommandsSwapped ==
    <<Cmd(AC073TC1_CMDH, <<73, 85, 32, 8, 9, 24>>),
      Cmd(AC073TC1_PWR, <<63, 0, 50, 42, 14, 42>>),
      Cmd(AC073TC1_PSR, <<95, 105>>),
      Cmd(AC073TC1_POFS, <<0, 84, 0, 68>>),
      Cmd(AC073TC1_BTST1, <<64, 31, 31, 44>>),
      Cmd(AC073TC1_BTST2, <<111, 31, 22, 37>>),
      Cmd(AC073TC1_BTST3, <<111, 31, 31, 34>>),
      Cmd(AC073TC1_IPC, <<0, 4>>),
      Cmd(AC073TC1_PLL, <<2>>),
      Cmd(AC073TC1_TSE, <<0>>),
      Cmd(AC073TC1_CDI, <<63>>),
      Cmd(AC073TC1_TCON, <<2, 0>>),
      Cmd(AC073TC1_TRES, <<3, 32, 1, 224>>),
      Cmd(AC073TC1_VDCS, <<30>>),
      Cmd(AC073TC1_T_VDCS, <<0>>),
      Cmd(AC073TC1_AGID, <<0>>),
      Cmd(AC073TC1_CCSET, <<0>>),
      Cmd(AC073TC1_PWS, <<47>>),
      Cmd(AC073TC1_TSSET, <<0>>)>>
InitCommands ==
    <<Cmd(AC073TC1_CMDH, <<73, 85, 32, 8, 9, 24>>),
      Cmd(AC073TC1_PWR, <<63, 0, 50, 42, 14, 42>>),
      Cmd(AC073TC1_PSR, <<95, 105>>),
      Cmd(AC073TC1_POFS, <<0, 84, 0, 68>>),
      Cmd(AC073TC1_BTST1, <<64, 31, 31, 44>>),
      Cmd(AC073TC1_BTST2, <<111, 31, 22, 37>>),
      Cmd(AC073TC1_BTST3, <<111, 31, 31, 34>>),
      Cmd(AC073TC1_IPC, <<0, 4>>),
      Cmd(AC073TC1_PLL, <<2>>),
      Cmd(AC073TC1_TSE, <<0>>),
      Cmd(AC073TC1_CDI, <<63>>),
      Cmd(AC073TC1_TCON, <<2, 0>>),
      Cmd(AC073TC1_TRES, <<3, 32, 1, 224>>),
      Cmd(AC073TC1_VDCS, <<30>>),
      Cmd(AC073TC1_T_VDCS, <<0>>),
      Cmd(AC073TC1_AGID, <<0>>),
      Cmd(AC073TC1_PWS, <<47>>),
      Cmd(AC073TC1_CCSET, <<0>>),
      Cmd(AC073TC1_TSSET, <<0>>)>>

\* the body of setup, lines 141-170
SetupScript == ResetPulse \o <<BusyWait(10000)>> \o InitCommands

SetupAt(op) ==
    /\ Top = "setup"
    /\ su <= Len(SetupScript)
    /\ SetupScript[su].op = op

\* self.reset_pin.set_low() / set_high()
setup_reset ==
    /\ SetupAt("reset")
    /\ pins' = [pins EXCEPT !.reset = SetupScript[su].v]
    /\ Emit([k |-> "reset", v |-> SetupScript[su].v])
    /\ su' = su + 1
    /\ UNCHANGED <<pc, ret, eepVars, opened, buf, ii, bw, up, sc, sw, mn, qz>>

\* thread::sleep(Duration::from_millis(100))
setup_sleep ==
    /\ SetupAt("sleep")
    /\ Emit([k |-> "sleep", ms |-> SetupScript[su].ms])
    /\ su' = su + 1
    /\ UNCHANGED <<pc, ret, eepVars, opened, pins, buf, ii, bw, up,
                  sc, sw, mn, qz>>

\* self.busy_wait(Duration::from_secs(10))
setup_busy_wait ==
    /\ SetupAt("busy_wait")
    /\ EnterBusyWait(SetupScript[su].ms)
    /\ Call("bw_entry", "setup_q")
    /\ UNCHANGED <<ret, eepVars, hwVars, ii, su, up, sc, sw, mn, qz>>

\* self.send_command(c, &[..])
setup_send_command ==
    /\ SetupAt("send_command")
    /\ EnterSendCommand(SetupScript[su].c, SetupScript[su].data)
    /\ Call("sc_command", "setup_q")
    /\ UNCHANGED <<ret, eepVars, hwVars, ii, su, bw, up, sw, mn, qz>>

\* the `?` after busy_wait and after each send_command
setup_q_unchecked ==
    /\ Top = "setup_q"
    /\ Goto("setup") /\ su' = su + 1 /\ ret' = ret
    /\ UNCHANGED <<eepVars, hwVars, ii, bw, up, sc, sw, mn, qz>>
setup_q ==
    /\ Top = "setup_q"
    /\ IF ret = "ok"
       THEN Goto("setup") /\ su' = su + 1 /\ ret' = ret
       ELSE Return(ret) /\ su' = 1
    /\ UNCHANGED <<eepVars, hwVars, ii, bw, up, sc, sw, mn, qz>>

\* Ok(())
setup_return ==
    /\ Top = "setup"
    /\ su > Len(SetupScript)
    /\ su' = 1
    /\ Return("ok")
    /\ UNCHANGED <<eepVars, hwVars, ii, bw, up, sc, sw, mn, qz>>

---------------------------------------------------------------------------
(* Inky::update *)

\* the body of update(buf), lines 187-199
UpdateScriptRefreshFirst(b) ==
    <<Setup,
      Cmd(AC073TC1_DTM, b),
      Cmd(AC073TC1_DRF, <<0>>), BusyWait(45000),
      Cmd(AC073TC1_PON, <<>>), BusyWait(400),
      Cmd(AC073TC1_POF, <<0>>), BusyWait(400)>>
UpdateScriptNoSetup(b) ==
    <<Cmd(AC073TC1_DTM, b),
      Cmd(AC073TC1_PON, <<>>), BusyWait(400),
      Cmd(AC073TC1_DRF, <<0>>), BusyWait(45000),
      Cmd(AC073TC1_POF, <<0>>), BusyWait(400)>>
UpdateScript(b) ==
    <<Setup,
      Cmd(AC073TC1_DTM, b),
      Cmd(AC073TC1_PON, <<>>), BusyWait(400),
      Cmd(AC073TC1_DRF, <<0>>), BusyWait(45000),
      Cmd(AC073TC1_POF, <<0>>), BusyWait(400)>>

UpdateAt(op) ==
    /\ Top = "update"
    /\ up.idx <= Len(UpdateScript(up.buf))
    /\ UpdateScript(up.buf)[up.idx].op = op

\* self.setup()
update_setup ==
    /\ UpdateAt("setup")
    /\ su' = 1
    /\ Call("setup", "update_q")
    /\ UNCHANGED <<ret, eepVars, hwVars, ii, bw, up, sc, sw, mn, qz>>

\* self.send_command(c, ..)
update_send_command ==
    /\ UpdateAt("send_command")
    /\ EnterSendCommand(UpdateScript(up.buf)[up.idx].c,
                        UpdateScript(up.buf)[up.idx].data)
    /\ Call("sc_command", "update_q")
    /\ UNCHANGED <<ret, eepVars, hwVars, ii, su, bw, up, sw, mn, qz>>

\* self.busy_wait(..)
update_busy_wait ==
    /\ UpdateAt("busy_wait")
    /\ EnterBusyWait(UpdateScript(up.buf)[up.idx].ms)
    /\ Call("bw_entry", "update_q")
    /\ UNCHANGED <<ret, eepVars, hwVars, ii, su, up, sc, sw, mn, qz>>

\* the `?` after each call
update_q ==
    /\ Top = "update_q"
    /\ IF ret = "ok"
       THEN Goto("update") /\ up' = [up EXCEPT !.idx = @ + 1] /\ ret' = ret
       ELSE Return(ret) /\ up' = NoUpdate
    /\ UNCHANGED <<eepVars, hwVars, ii, su, bw, sc, sw, mn, qz>>

\* return Ok(())
update_return ==
    /\ Top = "update"
    /\ up.idx > Len(UpdateScript(up.buf))
    /\ up' = NoUpdate
    /\ Return("ok")
    /\ UNCHANGED <<eepVars, hwVars, ii, su, bw, sc, sw, mn, qz>>

---------------------------------------------------------------------------
(* Frame buffer: Inky::show and Inky::set_pixel *)

RECURSIVE BitAnd(_, _)
BitAnd(a, b) ==
    IF a = 0 \/ b = 0 THEN 0
    ELSE (a % 2) * (b % 2) + 2 * BitAnd(a \div 2, b \div 2)

RECURSIVE BitOr(_, _)
BitOr(a, b) ==
    IF a = 0 THEN b
    ELSE IF b = 0 THEN a
    ELSE (IF a % 2 = 1 \/ b % 2 = 1 THEN 1 ELSE 0)
         + 2 * BitOr(a \div 2, b \div 2)

\* u8 << 4
Shl4(a) == (a * 16) % 256

Width == eeprom.width
Height == eeprom.height

\* self.buf.iter(): the cells in row-major order, ix counted from 0
Cell(b, w, h, ix) == b[(ix \div w) + 1][(ix % w) + 1]

\* let actual_px = if *px == 7 { 1 } else { *px } & 0xF
ActualPx(px) == BitAnd(IF px = 7 THEN 1 ELSE px, 15)

\* one iteration of the loop of show on internal_buf
PackStepLowFirst(acc, ix, px) ==
    IF ix % 2 = 0
    THEN [acc EXCEPT ![(ix \div 2) + 1] = BitOr(@, ActualPx(px))]
    ELSE [acc EXCEPT ![(ix \div 2) + 1] = BitOr(@, Shl4(ActualPx(px)))]
PackStep(acc, ix, px) ==
    IF ix % 2 = 0
    THEN [acc EXCEPT ![(ix \div 2) + 1] = BitOr(@, Shl4(ActualPx(px)))]
    ELSE [acc EXCEPT ![(ix \div 2) + 1] = BitOr(@, ActualPx(px))]

RECURSIVE PackLoop(_, _, _, _, _)
PackLoop(acc, b, w, h, ix) ==
    IF ix = w * h THEN acc
    ELSE PackLoop(PackStep(acc, ix, Cell(b, w, h, ix)), b, w, h, ix + 1)

\* internal_buf after the loop; Array1::zeros(width * height / 2) before it
PackFrame(b, w, h) ==
    PackLoop([i \in 1..((w * h) \div 2) |-> 0], b, w, h, 0)

\* internal_buf[ix / 2] indexes past the end: the loop panics
PackPanics(w, h) ==
    \E ix \in 0..(w * h - 1) : ix \div 2 >= (w * h) \div 2

\* show: pack self.buf, then self.update(internal_buf)
show_pack_in_place ==
    /\ Top = "show"
    /\ log' = <<>>
    /\ buf' = [y \in DOMAIN buf |-> [x \in DOMAIN buf[y] |-> ActualPx(buf[y][x])]]
    /\ IF PackPanics(Width, Height)
       THEN Halt("panic") /\ up' = up
       ELSE /\ up' = [buf |-> PackFrame(buf, Width, Height), idx |-> 1]
            /\ Call("update", "show_q")
    /\ UNCHANGED <<ret, eepVars, opened, pins, ii, su, bw, sc, sw, mn, qz>>
show_pack ==
    /\ Top = "show"
    /\ log' = <<>>
    /\ IF PackPanics(Width, Height)
       THEN Halt("panic") /\ up' = up
       ELSE /\ up' = [buf |-> PackFrame(buf, Width, Height), idx |-> 1]
            /\ Call("update", "show_q")
    /\ UNCHANGED <<ret, eepVars, opened, pins, buf, ii, su, bw, sc,
                  sw, mn, qz>>

\* show: the `?` and return Ok(())
show_q ==
    /\ Top = "show_q"
    /\ Return(ret)
    /\ UNCHANGED <<eepVars, hwVars, locVars, qz>>

\* self.buf[[y, x]] = v
SetPixelTransposed(b, x, y, v) == [b EXCEPT ![x + 1][y + 1] = v]
SetPixel(b, x, y, v) == [b EXCEPT ![y + 1][x + 1] = v]

\* ndarray panics on an index out of range
InRange(b, x, y) == y + 1 \in DOMAIN b /\ x + 1 \in DOMAIN b[y + 1]

---------------------------------------------------------------------------
(* Inky::initialize_inky and Inky::new *)

\* what initialize_inky acquires after the identity read, lines 102-120
Acquisitions ==
    <<[res |-> "gpio", err |-> "GpioError", pin |-> "none", level |-> "none"],
      [res |-> "cs", err |-> "GpioError", pin |-> "cs", level |-> "high"],
      [res |-> "dc", err |-> "GpioError", pin |-> "dc", level |-> "low"],
      [res |-> "reset", err |-> "GpioError", pin |-> "reset", level |-> "high"],
      [res |-> "busy", err |-> "GpioError", pin |-> "none", level |-> "none"],
      [res |-> "busy_interrupt", err |-> "GpioError", pin |-> "none",
       level |-> "none"],
      [res |-> "spi", err |-> "SpiError", pin |-> "none", level |-> "none"]>>

\* let mut i2c = I2c::new()?; epd::read_eeprom(&mut i2c)
initialize_inky_i2c ==
    /\ Top = "ii_i2c"
    /\ \E ok \in BOOLEAN :
         IF ok
         THEN /\ opened' = opened \cup {"i2c"}
              /\ Call("re_set_slave_address", "ii_eeprom_q")
              /\ ret' = ret
         ELSE /\ opened' = opened
              /\ Return("I2cError")
    /\ UNCHANGED <<eepVars, pins, buf, log, locVars, qz>>

\* the `?` on read_eeprom's result
initialize_inky_eeprom_q_unchecked ==
    /\ Top = "ii_eeprom_q"
    /\ Goto("ii_acquire") /\ ret' = ret
    /\ ii' = 1
    /\ UNCHANGED <<eepVars, hwVars, su, bw, up, sc, sw, mn, qz>>
initialize_inky_eeprom_q ==
    /\ Top = "ii_eeprom_q"
    /\ IF ret = "ok"
       THEN Goto("ii_acquire") /\ ret' = ret
       ELSE Return(ret)
    /\ ii' = 1
    /\ UNCHANGED <<eepVars, hwVars, su, bw, up, sc, sw, mn, qz>>

\* Gpio::new()?, gpio.get(..)?.into_..(), set_interrupt(..)?, Spi::new(..)?
initialize_inky_acquire ==
    /\ Top = "ii_acquire"
    /\ ii <= Len(Acquisitions)
    /\ LET a == Acquisitions[ii] IN
       \E ok \in BOOLEAN :
         IF ok
         THEN /\ opened' = opened \cup {a.res}
              /\ pins' = IF a.pin = "none" THEN pins
                         ELSE [pins EXCEPT ![a.pin] = a.level]
              /\ ii' = ii + 1
              /\ UNCHANGED <<pc, ret>>
         ELSE /\ UNCHANGED <<opened, pins>>
              /\ ii' = 1
              /\ Return(a.err)
    /\ UNCHANGED <<eepVars, buf, log, su, bw, up, sc, sw, mn, qz>>

\* Ok(Inky { .., buf: Array2::zeros((height, width)) })
initialize_inky_finish ==
    /\ Top = "ii_acquire"
    /\ ii > Len(Acquisitions)
    /\ buf' = [y \in 1..Height |-> [x \in 1..Width |-> 0]]
    /\ ii' = 1
    /\ Return("ok")
    /\ UNCHANGED <<eepVars, opened, pins, log, su, bw, up, sc, sw, mn, qz>>

\* new: Self::initialize_inky()
new_initialize ==
    /\ Top = "new"
    /\ Call("ii_i2c", "new_q")
    /\ UNCHANGED <<ret, eepVars, hwVars, locVars, qz>>

\* new: the `?`, then inky.setup()
new_setup ==
    /\ Top = "new_q"
    /\ IF ret = "ok"
       THEN Call("setup", "new_return") /\ ret' = ret
       ELSE Return(ret)
    /\ su' = 1
    /\ UNCHANGED <<eepVars, hwVars, ii, bw, up, sc, sw, mn, qz>>

\* new: the `?` on setup's result, then Ok(inky)
new_return ==
    /\ Top = "new_return"
    /\ Return(ret)
    /\ UNCHANGED <<eepVars, hwVars, locVars, qz>>

---------------------------------------------------------------------------
(* main: src/src/main.rs *)

\* palette indices the quantized image is drawn from
MainPixels == {0, 3, 7}

\* let mut inky = Inky::new().unwrap()
main_new ==
    /\ Top = "main_new"
    /\ Call("new", "main_new_unwrap")
    /\ UNCHANGED <<ret, eepVars, hwVars, locVars, qz>>

main_new_unwrap ==
    /\ Top = "main_new_unwrap"
    /\ IF ret = "ok" THEN Goto("main_palettize") ELSE Halt("panic")
    /\ UNCHANGED <<ret, eepVars, hwVars, locVars, qz>>

\* palettize_file(..) returning Ok: width * height indices
main_palettize_ok ==
    /\ Top = "main_palettize"
    /\ \E q \in [1..(Width * Height) -> MainPixels] :
         mn' = [mn EXCEPT !.q = q, !.ix = 0]
    /\ Goto("main_set_pixel")
    /\ UNCHANGED <<ret, eepVars, hwVars, ii, su, bw, up, sc, sw, qz>>

\* impl Display for QuantizeError: what handle_error prints
Message(e) ==
    CASE e = "Io" -> "File error"
      [] e = "Image" -> "File error"
      [] e = "Quantize" -> "Quantization error"

QuantizeErrors == {"Io", "Image", "Quantize"}

(* palettize_file(..) returning Err, from ImageReader::open, decode or     *)
(* quantize: unwrap_or_else(handle_error) prints it and calls exit(1)       *)
main_palettize_err_defaulted ==
    /\ Top = "main_palettize"
    /\ \E e \in QuantizeErrors :
         /\ ret' = e
         /\ mn' = [mn EXCEPT !.q = <<>>, !.ix = 0]
    /\ Goto("main_set_pixel")
    /\ UNCHANGED <<eepVars, hwVars, ii, su, bw, up, sc, sw, qz>>
main_palettize_err ==
    /\ Top = "main_palettize"
    /\ \E e \in QuantizeErrors :
         /\ ret' = e
         /\ mn' = [mn EXCEPT !.printed = Message(e)]
    /\ Halt("exit1")
    /\ UNCHANGED <<eepVars, hwVars, ii, su, bw, up, sc, sw, qz>>

\* inky.set_pixel(ix % width, ix / width, *px)
main_set_pixel ==
    /\ Top = "main_set_pixel"
    /\ mn.ix < Len(mn.q)
    /\ LET x == mn.ix % Width
           y == mn.ix \div Width
       IN IF InRange(buf, x, y)
          THEN /\ buf' = SetPixel(buf, x, y, mn.q[mn.ix + 1])
               /\ mn' = [mn EXCEPT !.ix = @ + 1]
               /\ pc' = pc
          ELSE /\ UNCHANGED <<buf, mn>>
               /\ Halt("panic")
    /\ UNCHANGED <<ret, eepVars, opened, pins, log, ii, su, bw, up,
                  sc, sw, qz>>

\* the loop over buffer is over: inky.show()
main_show ==
    /\ Top = "main_set_pixel"
    /\ mn.ix = Len(mn.q)
    /\ mn' = [mn EXCEPT !.shows = @ + 1]
    /\ Call("show", "main_show_unwrap")
    /\ UNCHANGED <<ret, eepVars, hwVars, ii, su, bw, up, sc, sw, qz>>

\* .unwrap() on show's result
main_show_unwrap ==
    /\ Top = "main_show_unwrap"
    /\ IF ret = "ok" THEN Goto("main_end") ELSE Halt("panic")
    /\ UNCHANGED <<ret, eepVars, hwVars, locVars, qz>>

\* main returns
main_exit ==
    /\ Top = "main_end"
    /\ Halt("exit0")
    /\ UNCHANGED <<ret, eepVars, hwVars, locVars, qz>>

(* the data the last show put on the bus after the DTM command byte: kept  *)
(* by the caller below in mn.prev, for comparison with the next show        *)
SentFrame(l) ==
    LET i == CHOOSE i \in DOMAIN l :
                 /\ i < Len(l)
                 /\ l[i].k = "frame" /\ l[i].dc = "low"
                 /\ l[i].bytes = <<AC073TC1_DTM>>
    IN l[i + 1].bytes

(* Inky::show and Inky::set_pixel are public: a caller that keeps the Inky *)
(* may show the same buffer again, or fill it with another image first.     *)
caller_show_again ==
    /\ Top = "main_end"
    /\ mn.shows < MaxShows
    /\ mn' = [mn EXCEPT !.shows = @ + 1,
                        !.prev = [has |-> TRUE, data |-> SentFrame(log)]]
    /\ Call("show", "main_show_unwrap")
    /\ UNCHANGED <<ret, eepVars, hwVars, ii, su, bw, up, sc, sw, qz>>

caller_next_image ==
    /\ Top = "main_end"
    /\ mn.shows < MaxShows
    /\ mn' = [mn EXCEPT !.prev = NoMain.prev]
    /\ Goto("main_palettize")
    /\ UNCHANGED <<ret, eepVars, hwVars, ii, su, bw, up, sc, sw, qz>>

---------------------------------------------------------------------------
(* Palette builder: src/src/main.rs, lerp and get_palette *)

\* the saturation is a multiple of 1/2^SatBits: arithmetic on f64 is exact
SatBits == 4
SatDen == 2 ^ SatBits

DESATURATED_PALETTE ==
    <<<<0, 0, 0, 255>>, <<255, 255, 255, 255>>, <<0, 255, 0, 255>>,
      <<0, 0, 255, 255>>, <<255, 0, 0, 255>>, <<255, 255, 0, 255>>,
      <<255, 140, 0, 255>>, <<0, 0, 0, 0>> >>

SATURATED_PALETTE ==
    <<<<50, 37, 54, 255>>, <<193, 198, 192, 255>>, <<51, 93, 86, 255>>,
      <<63, 57, 100, 255>>, <<159, 81, 68, 255>>, <<176, 164, 78, 255>>,
      <<160, 114, 76, 255>>, <<0, 0, 0, 0>> >>

\* f64 as u8: the fraction is dropped and the value saturates at 0 and 255
AsU8(num, den) ==
    IF num < 0 THEN 0
    ELSE IF num \div den > 255 THEN 255 ELSE num \div den

\* (x as f64 * (1.0 - i) + y as f64 * i) as u8, with i = k / SatDen
LerpSwapped(x, y, k) == AsU8(x * k + y * (SatDen - k), SatDen)
Lerp(x, y, k) == AsU8(x * (SatDen - k) + y * k, SatDen)

\* the closure of get_palette applied to the pair of anchors at entry e
BlendEntry(e, k) ==
    [c \in 1..4 |-> Lerp(DESATURATED_PALETTE[e][c], SATURATED_PALETTE[e][c], k)]

\* get_palette(saturation), saturation = k / SatDen
GetPalette(k) == [e \in 1..Len(DESATURATED_PALETTE) |-> BlendEntry(e, k)]

\* one step of the iterator chain .zip(..).map(..).collect()
get_palette_map ==
    /\ Top = "get_palette"
    /\ qz.fn = "get_palette"
    /\ Len(qz.palette) < Len(DESATURATED_PALETTE)
    /\ qz' = [qz EXCEPT !.palette =
                 Append(@, BlendEntry(Len(@) + 1, qz.saturation))]
    /\ UNCHANGED <<pc, ret, eepVars, hwVars, ii, su, bw, up, sc, sw, mn>>

\* collect() has taken the last pair: the Vec is returned
get_palette_return ==
    /\ Top = "get_palette"
    /\ qz.fn = "get_palette"
    /\ Len(qz.palette) = Len(DESATURATED_PALETTE)
    /\ Return("ok")
    /\ UNCHANGED <<eepVars, hwVars, locVars, qz>>

---------------------------------------------------------------------------
(* Quantizer: src/src/quantize/mod.rs, quantize *)

\* colours of the palette the engine may return besides all of them
MaxEngineColours == 3

\* palette.iter().position(|y| x == y): index of the first match, from 0
Found(palette, x) == \E i \in DOMAIN palette : palette[i] = x
Position(palette, x) ==
    (CHOOSE i \in DOMAIN palette :
        palette[i] = x /\ \A j \in 1..(i - 1) : palette[j] # x) - 1

\* the element of palette_remap for entry i of out_palette, as u8
RemapEntryUnmapped(palette, out_palette, i) == (i - 1) % 256
RemapEntry(palette, out_palette, i) ==
    Position(palette, out_palette[i]) % 256

(* What quantization.remapped may return for a palette of fixed colours:  *)
(* the colours in any order, or some of them, each once.                   *)
Orderings(n, len) ==
    {f \in [1..len -> 1..n] : \A i, j \in 1..len : i # j => f[i] # f[j]}
EngineOrders(n) ==
    UNION {Orderings(n, len) : len \in 1..Min(n, MaxEngineColours)}
    \cup {[i \in 1..n |-> i], [i \in 1..n |-> n + 1 - i],
          [i \in 1..n |-> (i % n) + 1]}
EnginePalettes(palette) ==
    {[i \in DOMAIN f |-> palette[f[i]]] : f \in EngineOrders(Len(palette))}

\* quantize is entered: lines 61-73, the engine's part
quantize_remapped ==
    /\ Top = "quantize"
    /\ qz.fn = "quantize"
    /\ \E op \in EnginePalettes(qz.palette) :
         \E ob \in [1..(qz.width * qz.height) -> 0..(Len(op) - 1)] :
           qz' = [qz EXCEPT !.out_palette = op, !.outbuf = ob, !.engine = ob]
    /\ Goto("qz_palette_remap")
    /\ UNCHANGED <<ret, eepVars, hwVars, ii, su, bw, up, sc, sw, mn>>

\* one of the `?` of lines 62-73 returns the engine's error
quantize_engine_error ==
    /\ Top = "quantize"
    /\ qz.fn = "quantize"
    /\ Return("QuantizeError")
    /\ UNCHANGED <<eepVars, hwVars, locVars, qz>>

\* let palette_remap = out_palette.iter().map(..position(..).unwrap()..)
quantize_palette_remap ==
    /\ Top = "qz_palette_remap"
    /\ IF \A i \in DOMAIN qz.out_palette : Found(qz.palette, qz.out_palette[i])
       THEN /\ qz' = [qz EXCEPT !.palette_remap =
                        [i \in DOMAIN qz.out_palette |->
                            RemapEntry(qz.palette, qz.out_palette, i)],
                                !.ix = 1]
            /\ Goto("qz_outbuf")
       ELSE /\ qz' = qz
            /\ Halt("panic")
    /\ UNCHANGED <<ret, eepVars, hwVars, ii, su, bw, up, sc, sw, mn>>

\* for x in outbuf.iter_mut() { *x = palette_remap[*x as usize] }
quantize_outbuf ==
    /\ Top = "qz_outbuf"
    /\ qz.ix <= Len(qz.outbuf)
    /\ IF qz.outbuf[qz.ix] + 1 \in DOMAIN qz.palette_remap
       THEN /\ qz' = [qz EXCEPT !.outbuf[qz.ix] =
                                    qz.palette_remap[qz.outbuf[qz.ix] + 1],
                                !.ix = @ + 1]
            /\ pc' = pc
       ELSE /\ qz' = qz
            /\ Halt("panic")
    /\ UNCHANGED <<ret, eepVars, hwVars, ii, su, bw, up, sc, sw, mn>>

\* return Ok(outbuf)
quantize_return ==
    /\ Top = "qz_outbuf"
    /\ qz.ix > Len(qz.outbuf)
    /\ Return("ok")
    /\ UNCHANGED <<eepVars, hwVars, locVars, qz>>

---------------------------------------------------------------------------
(* Image resizer: src/src/quantize/mod.rs, crop_resize *)

(* Widths and heights of the source image and of the target.  On sizes up  *)
(* to 8 the quotients below, computed exactly, are the values the f64       *)
(* arithmetic of the code yields.                                           *)
MaxDim == 4

\* image_aspect_ratio.total_cmp(&target_aspect_ratio), W/H against w/h
TotalCmp(W, H, w, h) ==
    IF W * h < H * w THEN "Less"
    ELSE IF W * h = H * w THEN "Equal" ELSE "Greater"

\* (crop_width, crop_height): `as u32` drops the fraction of the f64
CropSize(W, H, w, h) ==
    CASE TotalCmp(W, H, w, h) = "Less" -> <<W, (W * h) \div w>>
      [] TotalCmp(W, H, w, h) = "Equal" -> <<W, H>>
      [] TotalCmp(W, H, w, h) = "Greater" -> <<(H * w) \div h, H>>

\* lines 27-39: the crop rectangle
crop_resize_crop ==
    /\ Top = "crop_resize"
    /\ qz.fn = "crop_resize"
    /\ LET c == CropSize(qz.image[1], qz.image[2], qz.width, qz.height) IN
       qz' = [qz EXCEPT !.crop_width = c[1], !.crop_height = c[2],
                        !.crop_x = (qz.image[1] - c[1]) \div 2,
                        !.crop_y = (qz.image[2] - c[2]) \div 2]
    /\ Goto("cr_resize")
    /\ UNCHANGED <<ret, eepVars, hwVars, ii, su, bw, up, sc, sw, mn>>

(* image.crop_imm(..).resize_exact(width, height, Lanczos3): the image     *)
(* library returns an image of the size asked for                           *)
crop_resize_resize ==
    /\ Top = "cr_resize"
    /\ qz.crop_width >= 1 /\ qz.crop_height >= 1
    /\ qz' = [qz EXCEPT !.out = <<qz.width, qz.height>>]
    /\ Return("ok")
    /\ UNCHANGED <<eepVars, hwVars, locVars>>

(* the same on an empty crop rectangle: what the library does with an      *)
(* empty source depends on its version, a blank image of the size asked for *)
(* or a panic while sampling                                                *)
crop_resize_resize_empty ==
    /\ Top = "cr_resize"
    /\ qz.crop_width = 0 \/ qz.crop_height = 0
    /\ \/ qz' = [qz EXCEPT !.out = <<qz.width, qz.height>>] /\ Return("ok")
       \/ qz' = qz /\ Halt("panic") /\ ret' = ret
    /\ UNCHANGED <<eepVars, hwVars, locVars>>

---------------------------------------------------------------------------
(* Identity records the chip may hold. *)

\* 800 x 480, Red, and a 21-byte write-time blob
BaseRecord ==
    <<32, 3, 224, 1, 2, 12, 14, 21>> \o [i \in 1..21 |-> 48 + i]

\* an identity record of a w x h panel with colour byte c
Panel(w, h, c) ==
    [BaseRecord EXCEPT ![1] = w % 256, ![2] = w \div 256,
                       ![3] = h % 256, ![4] = h \div 256, ![5] = c]

\* the values a byte of the record is varied over
VaryBytes == {0, 1, 5, 255}

EepromRecords ==
    {BaseRecord} \cup
    {[BaseRecord EXCEPT ![p] = v] : p \in 1..ReadLen, v \in VaryBytes}

InitLocals ==
    /\ ii = 1
    /\ su = 1
    /\ bw = NoBusyWait
    /\ up = NoUpdate
    /\ sc = NoCommand
    /\ sw = NoSpiWrite
    /\ mn = NoMain
    /\ qz = NoQuantize

\* read_eeprom is entered with an I2C bus open and nothing else touched
InitEeprom ==
    /\ pc = <<"re_set_slave_address">>
    /\ ret = "none"
    /\ chip \in EepromRecords
    /\ i2c = <<>>
    /\ buffer = [i \in 1..BufferLen |-> 0]
    /\ eeprom = NoDescriptor
    /\ opened = {"i2c"}
    /\ pins = [cs |-> "unopened", dc |-> "unopened", reset |-> "unopened"]
    /\ buf = <<>>
    /\ log = <<>>
    /\ InitLocals

NextEeprom ==
    \/ read_eeprom_set_slave_address
    \/ read_eeprom_block_write
    \/ read_eeprom_block_read

SpecEeprom == InitEeprom /\ [][NextEeprom]_vars

---------------------------------------------------------------------------
(* Payloads and line states spi_write is checked on by itself. *)

Payload(n) == [i \in 1..n |-> (37 * i + 11) % 256]

PayloadLens == {0, 1, 2, 3} \cup ((CHUNK - 1)..MaxPayload)

InitSpi ==
    /\ pc = <<"sc_command">>
    /\ ret = "ok"
    /\ chip = BaseRecord
    /\ i2c = <<>>
    /\ buffer = BaseRecord \o <<0>>
    /\ eeprom = Transmute(buffer)
    /\ opened = {"i2c", "gpio", "cs", "dc", "reset", "busy", "spi"}
    /\ \E d \in Levels : pins = [cs |-> "high", dc |-> d, reset |-> "high"]
    /\ buf = <<>>
    /\ log = <<>>
    /\ ii = 1
    /\ su = 1
    /\ bw = NoBusyWait
    /\ up = NoUpdate
    /\ \E n \in PayloadLens : sc = [command |-> 16, data |-> Payload(n)]
    /\ sw = NoSpiWrite
    /\ mn = NoMain
    /\ qz = NoQuantize

NextSpi ==
    \/ spi_write_cs_low
    \/ spi_write_set_dc
    \/ spi_write_transfer
    \/ spi_write_fail
    \/ spi_write_loop_exit
    \/ spi_write_cs_high
    \/ send_data_call
    \/ send_data_return
    \/ send_command_call
    \/ send_command_data

SpecSpi == InitSpi /\ [][NextSpi]_vars

---------------------------------------------------------------------------
(* Frame buffers show is checked on by itself: the driver is constructed,  *)
(* set_pixel has filled the buffer, and show is called once.                *)

PackPixels == 0..7

\* width, height of the panels: even and odd cell counts, one and two rows
PackPanels == {<<2, 1>>, <<1, 2>>, <<2, 2>>, <<1, 1>>}

\* the cells of the two-row, two-column panel are drawn from fewer values
PackPixelsOf(g) == IF g = <<2, 2>> THEN {0, 5, 7} ELSE PackPixels

InitPack ==
    /\ pc = <<"show">>
    /\ ret = "ok"
    /\ \E g \in PackPanels :
         /\ chip = Panel(g[1], g[2], 5)
         /\ buf \in [1..g[2] -> [1..g[1] -> PackPixelsOf(g)]]
    /\ i2c = <<>>
    /\ buffer = chip \o <<0>>
    /\ eeprom = Transmute(buffer)
    /\ opened = {"i2c", "gpio", "cs", "dc", "reset", "busy", "spi"}
    /\ pins = [cs |-> "high", dc |-> "high", reset |-> "high"]
    /\ log = <<>>
    /\ InitLocals

NextPack ==
    \/ spi_write_cs_low
    \/ spi_write_set_dc
    \/ spi_write_transfer
    \/ spi_write_fail
    \/ spi_write_loop_exit
    \/ spi_write_cs_high
    \/ send_data_call
    \/ send_data_return
    \/ send_command_call
    \/ send_command_data
    \/ busy_wait_entry
    \/ busy_wait_sleep
    \/ busy_wait_poll
    \/ busy_wait_return
    \/ setup_reset
    \/ setup_sleep
    \/ setup_busy_wait
    \/ setup_send_command
    \/ setup_q
    \/ setup_return
    \/ update_setup
    \/ update_send_command
    \/ update_busy_wait
    \/ update_q
    \/ update_return
    \/ show_pack
    \/ show_q

SpecPack == InitPack /\ [][NextPack]_vars

---------------------------------------------------------------------------
(* Saturations get_palette is checked on by itself. *)

\* main: let palette = get_palette(cli.saturation), 0 <= saturation <= 1
InitPalette ==
    /\ pc = <<"get_palette">>
    /\ ret = "none"
    /\ chip = BaseRecord
    /\ i2c = <<>>
    /\ buffer = [i \in 1..BufferLen |-> 0]
    /\ eeprom = NoDescriptor
    /\ opened = {}
    /\ pins = [cs |-> "unopened", dc |-> "unopened", reset |-> "unopened"]
    /\ buf = <<>>
    /\ log = <<>>
    /\ ii = 1
    /\ su = 1
    /\ bw = NoBusyWait
    /\ up = NoUpdate
    /\ sc = NoCommand
    /\ sw = NoSpiWrite
    /\ mn = NoMain
    /\ \E k \in 0..SatDen :
         qz = [fn |-> "get_palette", saturation |-> k, palette |-> <<>>]

NextPalette ==
    \/ get_palette_map
    \/ get_palette_return

SpecPalette == InitPalette /\ [][NextPalette]_vars

---------------------------------------------------------------------------
(* Palettes and image sizes quantize is checked on by itself. *)

\* width, height of the resized image
QuantizeSizes == {<<1, 1>>, <<2, 1>>, <<1, 2>>}

InitQuantize ==
    /\ pc = <<"quantize">>
    /\ ret = "none"
    /\ chip = BaseRecord
    /\ i2c = <<>>
    /\ buffer = [i \in 1..BufferLen |-> 0]
    /\ eeprom = NoDescriptor
    /\ opened = {}
    /\ pins = [cs |-> "unopened", dc |-> "unopened", reset |-> "unopened"]
    /\ buf = <<>>
    /\ log = <<>>
    /\ ii = 1
    /\ su = 1
    /\ bw = NoBusyWait
    /\ up = NoUpdate
    /\ sc = NoCommand
    /\ sw = NoSpiWrite
    /\ mn = NoMain
    /\ \E k \in {0, SatDen \div 2, SatDen} : \E g \in QuantizeSizes :
         qz = [fn |-> "quantize", palette |-> GetPalette(k),
               width |-> g[1], height |-> g[2], out_palette |-> <<>>,
               engine |-> <<>>, outbuf |-> <<>>, palette_remap |-> <<>>,
               ix |-> 1]

NextQuantize ==
    \/ quantize_remapped
    \/ quantize_engine_error
    \/ quantize_palette_remap
    \/ quantize_outbuf
    \/ quantize_return

SpecQuantize == InitQuantize /\ [][NextQuantize]_vars

---------------------------------------------------------------------------
(* Image and target sizes crop_resize is checked on by itself. *)

InitResize ==
    /\ pc = <<"crop_resize">>
    /\ ret = "none"
    /\ chip = BaseRecord
    /\ i2c = <<>>
    /\ buffer = [i \in 1..BufferLen |-> 0]
    /\ eeprom = NoDescriptor
    /\ opened = {}
    /\ pins = [cs |-> "unopened", dc |-> "unopened", reset |-> "unopened"]
    /\ buf = <<>>
    /\ log = <<>>
    /\ ii = 1
    /\ su = 1
    /\ bw = NoBusyWait
    /\ up = NoUpdate
    /\ sc = NoCommand
    /\ sw = NoSpiWrite
    /\ mn = NoMain
    /\ \E W \in 1..MaxDim, H \in 1..MaxDim, w \in 1..MaxDim, h \in 1..MaxDim :
         qz = [fn |-> "crop_resize", image |-> <<W, H>>,
               width |-> w, height |-> h,
               crop_width |-> 0, crop_height |-> 0, crop_x |-> 0,
               crop_y |-> 0, out |-> <<>>]

NextResize ==
    \/ crop_resize_crop
    \/ crop_resize_resize
    \/ crop_resize_resize_empty

SpecResize == InitResize /\ [][NextResize]_vars

---------------------------------------------------------------------------
(* The whole program. *)

MainRecords == {Panel(2, 2, 5), Panel(2, 1, 2), Panel(1, 1, 1)}

Init ==
    /\ pc = <<"main_new">>
    /\ ret = "none"
    /\ chip \in MainRecords
    /\ i2c = <<>>
    /\ buffer = [i \in 1..BufferLen |-> 0]
    /\ eeprom = NoDescriptor
    /\ opened = {}
    /\ pins = [cs |-> "unopened", dc |-> "unopened", reset |-> "unopened"]
    /\ buf = <<>>
    /\ log = <<>>
    /\ InitLocals

Next ==
    \/ read_eeprom_set_slave_address
    \/ read_eeprom_block_write
    \/ read_eeprom_block_read
    \/ spi_write_cs_low
    \/ spi_write_set_dc
    \/ spi_write_transfer
    \/ spi_write_fail
    \/ spi_write_loop_exit
    \/ spi_write_cs_high
    \/ send_data_call
    \/ send_data_return
    \/ send_command_call
    \/ send_command_data
    \/ busy_wait_entry
    \/ busy_wait_sleep
    \/ busy_wait_poll
    \/ busy_wait_return
    \/ setup_reset
    \/ setup_sleep
    \/ setup_busy_wait
    \/ setup_send_command
    \/ setup_q
    \/ setup_return
    \/ update_setup
    \/ update_send_command
    \/ update_busy_wait
    \/ update_q
    \/ update_return
    \/ show_pack
    \/ show_q
    \/ initialize_inky_i2c
    \/ initialize_inky_eeprom_q
    \/ initialize_inky_acquire
    \/ initialize_inky_finish
    \/ new_initialize
    \/ new_setup
    \/ new_return
    \/ main_new
    \/ main_new_unwrap
    \/ main_palettize_ok
    \/ main_palettize_err
    \/ main_set_pixel
    \/ main_show
    \/ main_show_unwrap
    \/ main_exit
    \/ caller_show_again
    \/ caller_next_image

Spec == Init /\ [][Next]_vars

---------------------------------------------------------------------------
(* Reading the traffic in log: commands. *)

IsFrame(e, dcLevel) == e.k = "frame" /\ e.dc = dcLevel /\ ~e.open

\* a command frame (dc low, one byte) and the data frame after it make a command
RECURSIVE Pair(_, _)
Pair(ev, i) ==
    IF i > Len(ev) THEN <<>>
    ELSE IF /\ i < Len(ev)
            /\ IsFrame(ev[i], "low")
            /\ Len(ev[i].bytes) = 1
            /\ IsFrame(ev[i + 1], "high")
         THEN <<[k |-> "cmd", c |-> ev[i].bytes[1], data |-> ev[i + 1].bytes]>>
              \o Pair(ev, i + 2)
         ELSE <<ev[i]>> \o Pair(ev, i + 1)

\* the traffic of the current call as resets, sleeps, busy waits and commands
Trace == Pair(log, 1)

IsPrefix(a, b) == Len(a) <= Len(b) /\ a = SubSeq(b, 1, Len(a))

OnStack(l) == \E i \in DOMAIN pc : pc[i] = l

---------------------------------------------------------------------------
(* Claims. *)

\* the 19 init commands of the panel, as the specification lists them
ExpectedInit ==
    <<[k |-> "cmd", c |-> 170, data |-> <<73, 85, 32, 8, 9, 24>>],
      [k |-> "cmd", c |-> 1, data |-> <<63, 0, 50, 42, 14, 42>>],
      [k |-> "cmd", c |-> 0, data |-> <<95, 105>>],
      [k |-> "cmd", c |-> 3, data |-> <<0, 84, 0, 68>>],
      [k |-> "cmd", c |-> 5, data |-> <<64, 31, 31, 44>>],
      [k |-> "cmd", c |-> 6, data |-> <<111, 31, 22, 37>>],
      [k |-> "cmd", c |-> 8, data |-> <<111, 31, 31, 34>>],
      [k |-> "cmd", c |-> 19, data |-> <<0, 4>>],
      [k |-> "cmd", c |-> 48, data |-> <<2>>],
      [k |-> "cmd", c |-> 65, data |-> <<0>>],
      [k |-> "cmd", c |-> 80, data |-> <<63>>],
      [k |-> "cmd", c |-> 96, data |-> <<2, 0>>],
      [k |-> "cmd", c |-> 97, data |-> <<3, 32, 1, 224>>],
      [k |-> "cmd", c |-> 130, data |-> <<30>>],
      [k |-> "cmd", c |-> 132, data |-> <<0>>],
      [k |-> "cmd", c |-> 134, data |-> <<0>>],
      [k |-> "cmd", c |-> 227, data |-> <<47>>],
      [k |-> "cmd", c |-> 224, data |-> <<0>>],
      [k |-> "cmd", c |-> 230, data |-> <<0>>]>>

\* setup has run its last statement and is about to return Ok
SetupDone == Top = "setup" /\ su > Len(SetupScript)

NoBusTraffic(e) == e.k \in {"reset", "sleep", "busy_wait"}

(* C1: when a setup call completes, the commands it has written since the  *)
(* reset pulse and the busy wait are exactly the 19 init commands of the    *)
(* specification, in its order, each with its parameter bytes; nothing was  *)
(* written on the bus before the busy wait returned.                        *)
C1_SetupEmitsInitSequence ==
    SetupDone =>
        LET t == Trace
            n == Len(t) - Len(ExpectedInit)
        IN /\ n >= 1
           /\ t[n].k = "busy_wait"
           /\ \A i \in 1..n : NoBusTraffic(t[i])
           /\ SubSeq(t, n + 1, Len(t)) = ExpectedInit

\* a setup call run by update has completed
C1_Witness == SetupDone /\ OnStack("update_q") /\ Len(Trace) > Len(ExpectedInit)

\* one complete setup: the reset pulse, the busy wait, the 19 init commands
ExpectedSetup ==
    <<[k |-> "reset", v |-> "low"], [k |-> "sleep", ms |-> 100],
      [k |-> "reset", v |-> "high"], [k |-> "sleep", ms |-> 100],
      [k |-> "reset", v |-> "low"], [k |-> "sleep", ms |-> 100],
      [k |-> "reset", v |-> "high"],
      [k |-> "busy_wait", ms |-> 10000]>> \o ExpectedInit

\* the frame-transfer command, complete or with its data still to come
IsDTM(e) ==
    \/ e.k = "cmd" /\ e.c = 16
    \/ e.k = "frame" /\ e.dc = "low" /\ e.bytes = <<16>>

(* C2: whenever the frame-transfer command DTM (0x10) is on the bus, all   *)
(* the traffic before it in the same call is one complete setup sequence    *)
(* ending with TSSET, and the data of a completed DTM is the whole packed   *)
(* frame, width*height/2 bytes, in a single chip-select frame: the packing  *)
(* of the frame buffer of the show call that sends it.                      *)
C2_DtmAfterSetup ==
    LET t == Trace IN
    \A i \in DOMAIN t :
        IsDTM(t[i]) =>
            /\ SubSeq(t, 1, i - 1) = ExpectedSetup
            /\ t[i].k = "cmd" => Len(t[i].data) = (Width * Height) \div 2
            /\ t[i].k = "cmd" /\ OnStack("show_q") =>
                 t[i].data = PackFrame(buf, Width, Height)

\* a second show call has sent its frame
C2_Witness ==
    /\ mn.shows = 2
    /\ \E i \in DOMAIN Trace :
         Trace[i].k = "cmd" /\ Trace[i].c = 16 /\ Len(Trace[i].data) = 2

\* what update does after the frame transfer
ExpectedRefresh ==
    <<[k |-> "cmd", c |-> 4, data |-> <<>>],
      [k |-> "busy_wait", ms |-> 400],
      [k |-> "cmd", c |-> 18, data |-> <<0>>],
      [k |-> "busy_wait", ms |-> 45000],
      [k |-> "cmd", c |-> 2, data |-> <<0>>],
      [k |-> "busy_wait", ms |-> 400]>>

(* an entry of the traffic after DTM agrees with the refresh sequence: a   *)
(* completed entry equals the expected one; a frame still in flight is the  *)
(* command byte or a prefix of the data of the expected command.            *)
AgreesWithRefresh(tail, j) ==
    IF tail[j].k = "frame"
    THEN LET first == j = 1 \/ tail[j - 1].k # "frame"
             x == IF first THEN j ELSE j - 1
         IN /\ j >= Len(tail) - 1
            /\ x <= Len(ExpectedRefresh)
            /\ ExpectedRefresh[x].k = "cmd"
            /\ IF first
               THEN /\ tail[j].dc \in {"unset", "low"}
                    /\ IsPrefix(tail[j].bytes, <<ExpectedRefresh[x].c>>)
               ELSE /\ tail[j].dc \in {"unset", "high"}
                    /\ ~tail[j - 1].open
                    /\ IsPrefix(tail[j].bytes, ExpectedRefresh[x].data)
    ELSE /\ j <= Len(ExpectedRefresh)
         /\ tail[j] = ExpectedRefresh[j]

(* C3: after the frame transfer the traffic is PON, busy_wait(400 ms), DRF, *)
(* busy_wait(45 s), POF, busy_wait(400 ms) in that order, each command      *)
(* written only after the busy wait before it has returned; and when update *)
(* has returned Ok to show, the whole sequence, last busy wait included,    *)
(* has run.                                                                 *)
C3_RefreshOrder ==
    LET t == Trace IN
    /\ \A d \in DOMAIN t :
         t[d].k = "cmd" /\ t[d].c = 16 =>
            LET tail == SubSeq(t, d + 1, Len(t)) IN
            \A j \in DOMAIN tail : AgreesWithRefresh(tail, j)
    /\ Top = "show_q" /\ ret = "ok" =>
         /\ Len(t) = Len(ExpectedSetup) + 1 + Len(ExpectedRefresh)
         /\ IsDTM(t[Len(ExpectedSetup) + 1])
         /\ SubSeq(t, Len(ExpectedSetup) + 2, Len(t)) = ExpectedRefresh

\* update has returned Ok to show
C3_Witness == Top = "show_q" /\ ret = "ok" /\ Len(Trace) > Len(ExpectedSetup)

(* C4: there is one level of the busy line, the busy level, such that     *)
(* whenever busy_wait is about to return it has slept at most once, it has  *)
(* slept exactly when its first read of the line showed that level, and its *)
(* last read of the line, the one that ended the polling loop, did not.     *)
C4_SleepsIffBusyAtEntry ==
    Top = "bw_return" =>
        \E busy \in Levels :
            /\ bw.slept <= 1
            /\ bw.slept = 1 <=> bw.entry = busy
            /\ bw.last # busy

\* the liveness checks run on one panel
InitLive == Init /\ chip = Panel(2, 1, 2)

\* an iteration of the polling loop that reads the line idle
PollReadsIdle == busy_wait_poll /\ ~PollSpins(bw'.last)

(* The process is one thread that runs until it exits, and the line reads  *)
(* idle at some poll of every wait.                                         *)
LiveSpec ==
    InitLive /\ [][Next]_vars /\ WF_vars(Next) /\ WF_vars(PollReadsIdle)

InBusyWait == Top \in {"bw_entry", "bw_sleep", "bw_poll", "bw_return"}

\* show is called on a panel with an even number of pixels
ShowCalled == Top = "show" /\ (Width * Height) % 2 = 0
ShowReturnedOk == Top = "main_show_unwrap" /\ ret = "ok"
WriteRefused == ret = "SpiError"

(* C5: busy_wait leaves only by returning Ok, and only from a poll that    *)
(* read the line idle (high): a poll that reads it busy (low) stays in the  *)
(* loop,                                                                    *)
(* so while the line reads busy neither busy_wait nor the setup, update or  *)
(* show around it returns.  When the line reads idle at some poll of every  *)
(* wait and no bus write is refused, a show call on a panel with an even    *)
(* number of pixels returns Ok.                                             *)
C5_HangsOrReturnsOk ==
    /\ [][/\ InBusyWait /\ ~InBusyWait' => Top = "bw_return" /\ ret' = "ok"
          /\ InBusyWait => Len(pc') >= Len(pc) \/ Top = "bw_return"
          /\ Top = "bw_poll" /\ bw'.last = "low" => pc' = pc
          /\ Top = "bw_poll" /\ Top' = "bw_return" => bw'.last = "high"]_vars
    /\ ShowCalled ~> (ShowReturnedOk \/ WriteRefused)

\* show has returned Ok after a busy wait that found the line busy
C5_Witness == ShowReturnedOk /\ mn.shows = 2


---------------------------------------------------------------------------
(* C6: inside spi_write the bytes accepted so far are a prefix of the       *)
(* payload and their number is the running count, no slice offered is       *)
(* longer than 64 bytes, the loop is left with the accepted bytes equal to  *)
(* the whole payload, and an empty payload is never offered to the          *)
(* transport; every write offers the slice of at most 64 bytes that starts  *)
(* at the number of bytes accepted so far, and the loop is left only with   *)
(* the count equal to the payload length or with the transport's error.     *)
C6_LoopState ==
    Top \in {"sw_loop", "sw_cs_high"} =>
        /\ sw.written = Len(sw.sent)
        /\ sw.written <= Len(sw.values)
        /\ sw.sent = SubSeq(sw.values, 1, Len(sw.sent))
        /\ Len(sw.offered) <= 64
        /\ sw.values = <<>> => ~sw.wrote
        /\ Top = "sw_cs_high" => sw.sent = sw.values

C6_ChunkedWrite ==
    /\ []C6_LoopState
    /\ [][/\ Top = "sw_loop" /\ Top' = "sw_loop" /\ sw' # sw =>
                /\ sw'.offered =
                       SubSeq(sw.values, Len(sw.sent) + 1,
                              Min(Len(sw.sent) + 64, Len(sw.values)))
                /\ Len(sw'.sent) - Len(sw.sent) \in 1..Len(sw'.offered)
                /\ sw'.values = sw.values
          /\ Top = "sw_loop" /\ Top' # "sw_loop" =>
                \/ Top' = "sw_cs_high" /\ sw.written = Len(sw.values)
                \/ ret' = "SpiError"
          /\ Top = "sw_cs_high" /\ Top' # "sw_cs_high" => ret' = "ok"]_vars

C6_Witness ==
    /\ Top = "sw_cs_high"
    /\ Len(sw.values) > 64
    /\ Len(sw.offered) < 64
    /\ sw.sent = sw.values

---------------------------------------------------------------------------
\* the frame buffer in row-major order, k counted from 0
C7_P(k) == buf[(k \div eeprom.width) + 1][(k % eeprom.width) + 1]

\* f(7) = 1 and f(v) = v & 0xF otherwise
C7_F(v) == IF v = 7 THEN 1 ELSE v % 16

\* byte k of the payload, k counted from 0: (f(p[2k]) << 4) | f(p[2k+1])
C7_Payload ==
    [j \in 1..((eeprom.width * eeprom.height) \div 2) |->
        16 * C7_F(C7_P(2 * (j - 1))) + C7_F(C7_P(2 * (j - 1) + 1))]

\* the index read back from the payload for cell k, high nibble first
C7_Unpack(bytes, k) ==
    IF k % 2 = 0 THEN bytes[(k \div 2) + 1] \div 16
    ELSE bytes[(k \div 2) + 1] % 16

C7_AllInRange ==
    \A y \in DOMAIN buf : \A x \in DOMAIN buf[y] : buf[y][x] \in 0..7

(* C7: while show runs on a frame buffer with entries in 0..7 and an even  *)
(* number of cells, the data of a completed DTM command is width*height/2   *)
(* bytes, byte k being 16*f(p[2k]) + f(p[2k+1]) over the buffer in          *)
(* row-major order with f(7) = 1 and f(v) = v mod 16 otherwise, and reading *)
(* the nibbles back, high nibble first, gives every cell's index, 1 for 7.  *)
C7_PackedFrame ==
    /\ OnStack("show_q")
    /\ C7_AllInRange
    /\ (eeprom.width * eeprom.height) % 2 = 0
    => LET t == Trace IN
       \A i \in DOMAIN t :
           t[i].k = "cmd" /\ t[i].c = 16 =>
               /\ Len(t[i].data) = (eeprom.width * eeprom.height) \div 2
               /\ t[i].data = C7_Payload
               /\ \A k \in 0..(eeprom.width * eeprom.height - 1) :
                      C7_Unpack(t[i].data, k) =
                          (IF C7_P(k) = 7 THEN 1 ELSE C7_P(k))

\* a two-row frame with a 7 in it and unequal off-diagonal cells was sent
C7_Witness ==
    /\ OnStack("show_q")
    /\ eeprom.width = 2 /\ eeprom.height = 2
    /\ buf[1][1] = 7 /\ buf[1][2] = 5 /\ buf[2][1] = 0
    /\ \E i \in DOMAIN Trace :
         /\ Trace[i].k = "cmd" /\ Trace[i].c = 16
         /\ Len(Trace[i].data) = 2

---------------------------------------------------------------------------
\* read_eeprom has returned
ReadEepromReturned == pc = <<>> /\ Len(i2c) >= 1

(* C8: when read_eeprom has returned on an identity record whose colour    *)
(* byte (offset 4) is none of 1, 2, 3, 5, it has returned an error, which   *)
(* is the unknown-colour-mode error unless the bus failed first; and a      *)
(* descriptor it returns with Ok has one of the four colour modes.          *)
C8_UnknownColourRejected ==
    ReadEepromReturned =>
        /\ chip[5] \notin {1, 2, 3, 5} =>
               ret \in {"UnknownColorMode", "I2cError"}
        /\ ret = "ok" =>
               eeprom.color \in {"Black", "Red", "Yellow", "SevenColour"}

---------------------------------------------------------------------------
\* the colour mode the specification gives for a colour byte
C9_Colour(b) ==
    CASE b = 1 -> "Black"
      [] b = 2 -> "Red"
      [] b = 3 -> "Yellow"
      [] b = 5 -> "SevenColour"

\* read_eeprom has returned Ok on a record with a recognised colour byte
C9_Decoded ==
    ReadEepromReturned /\ ret = "ok" /\ chip[5] \in {1, 2, 3, 5}

(* C9: when read_eeprom has returned Ok on a valid record, the descriptor  *)
(* is the function of the record's first 29 bytes that the claim lists      *)
(* (width and height low byte first, colour from byte 4, the variants, the  *)
(* write-time length and the 21-byte blob), whatever the 30th byte of the   *)
(* buffer is; no other valid record decodes to it; encoding it and decoding *)
(* again gives it back; and 800 x 480 with colour byte 2 decodes to Red.    *)
C9_DecodeIsInjective ==
    C9_Decoded =>
        /\ eeprom.width = chip[1] + 256 * chip[2]
        /\ eeprom.height = chip[3] + 256 * chip[4]
        /\ eeprom.color = C9_Colour(chip[5])
        /\ eeprom.pcb_variant = chip[6]
        /\ eeprom.display_variant = chip[7]
        /\ eeprom.eeprom_write_time_length = chip[8]
        /\ eeprom.eeprom_write_time = [i \in 1..21 |-> chip[8 + i]]
        /\ \A x \in 0..255 : Transmute([buffer EXCEPT ![30] = x]) = eeprom
        /\ \A r \in EepromRecords :
               r[5] \in {1, 2, 3, 5} /\ r # chip =>
                   Transmute(r \o <<0>>) # eeprom
        /\ Transmute(Encode(eeprom)) = eeprom
        /\ SubSeq(Encode(eeprom), 1, 29) = chip
        /\ SubSeq(chip, 1, 5) = <<32, 3, 224, 1, 2>> =>
               /\ eeprom.width = 800
               /\ eeprom.height = 480
               /\ eeprom.color = "Red"

\* an 800 x 480 Red record that differs from the base record was decoded
C9_Witness ==
    /\ C9_Decoded
    /\ eeprom.width = 800 /\ eeprom.height = 480 /\ eeprom.color = "Red"
    /\ chip[29] = 255

---------------------------------------------------------------------------
\* the three bus operations of read_eeprom, in order
C10_Operations ==
    <<<<"set_slave_address", 80>>, <<"block_write", 0, <<0>> >>,
      <<"block_read", 0, 29>> >>

\* the identity read or the opening of its bus has failed
C10_Failed == ret = "I2cError"

\* nothing but the I2C bus was opened, no line driven, nothing sent
C10_Untouched ==
    /\ opened \subseteq {"i2c"}
    /\ pins = [cs |-> "unopened", dc |-> "unopened", reset |-> "unopened"]
    /\ log = <<>>
    /\ buf = <<>>
    /\ eeprom = NoDescriptor

(* C10: the bus operations of the identity read are always a prefix of     *)
(* address-set, write of the zero byte, 29-byte block read; once one of     *)
(* them has failed, no further bus operation is made, the error is handed   *)
(* up unchanged through read_eeprom, initialize_inky and Inky::new to the   *)
(* caller, and no signal line or serial bus is opened, no line is driven    *)
(* and no command is sent.                                                  *)
C10_IdentityReadFailureIsFatal ==
    /\ [](/\ IsPrefix(i2c, C10_Operations)
          /\ C10_Failed =>
                /\ C10_Untouched
                /\ Top \in {"ii_eeprom_q", "new_q", "main_new_unwrap",
                            "panic"})
    /\ [][C10_Failed =>
              /\ i2c' = i2c
              /\ ret' = ret
              /\ Len(pc') <= Len(pc)]_vars

\* the write of the zero byte failed and Inky::new has returned the error
C10_Witness ==
    /\ Top = "main_new_unwrap"
    /\ C10_Failed
    /\ Len(i2c) = 2

---------------------------------------------------------------------------
\* quantize is about to return Ok(outbuf)
QuantizeDone == Top = "qz_outbuf" /\ qz.ix > Len(qz.outbuf)

(* C11: when quantize is about to return Ok, it returns width*height       *)
(* bytes, each in 0..7, and for every pixel the caller's palette entry at   *)
(* the returned index is the colour the engine gave that pixel, that is the *)
(* entry of the engine's palette at the engine's index.                     *)
C11_RemappedToCallerPalette ==
    QuantizeDone =>
        /\ Len(qz.palette) = 8
        /\ Len(qz.outbuf) = qz.width * qz.height
        /\ \A p \in DOMAIN qz.outbuf :
               /\ qz.outbuf[p] \in 0..7
               /\ qz.palette[qz.outbuf[p] + 1] =
                      qz.out_palette[qz.engine[p] + 1]

\* the engine returned three colours in an order that is not the caller's
C11_Witness ==
    /\ QuantizeDone
    /\ Len(qz.out_palette) = 3
    /\ Len(qz.outbuf) = 2
    /\ qz.out_palette[1] = qz.palette[8]
    /\ qz.out_palette[3] = qz.palette[2]
    /\ qz.engine = <<2, 0>>
    /\ qz.outbuf = <<1, 7>>

---------------------------------------------------------------------------
\* palettize_file has failed
C12_Failed == ret \in {"Io", "Image", "Quantize"}

\* no set_pixel call was made: the frame buffer is as Inky::new built it
C12_NoPixelSet ==
    /\ mn.ix = 0
    /\ \A y \in DOMAIN buf : \A x \in DOMAIN buf[y] : buf[y][x] = 0

(* C12: once opening or decoding the image or the quantization has failed, *)
(* the process has printed a message and exited with status 1; if main had  *)
(* not called show before, no set_pixel call was made and the traffic on    *)
(* the panel's lines is exactly the setup sequence that Inky::new sent,     *)
(* without DTM, PON, DRF or POF; and nothing happens after the exit.        *)
C12_QuantizeErrorExits ==
    /\ [](C12_Failed =>
            /\ pc = <<"exit1">>
            /\ mn.printed \in {"File error", "Quantization error"}
            /\ mn.shows = 0 =>
                  LET t == Trace IN
                  /\ C12_NoPixelSet
                  /\ t = ExpectedSetup
                  /\ \A i \in DOMAIN t :
                         t[i].k = "cmd" => t[i].c \notin {16, 4, 18, 2})
    /\ [][pc # <<"exit1">>]_vars

\* the quantization engine failed before the first show of the run
C12_Witness ==
    /\ pc = <<"exit1">>
    /\ ret = "Quantize"
    /\ mn.printed = "Quantization error"
    /\ mn.shows = 0
    /\ Len(log) > 0

---------------------------------------------------------------------------
\* get_palette has returned its 8 entries
PaletteReturned == pc = <<>> /\ qz.fn = "get_palette" /\ ret = "ok"

\* v is an integer nearest to num / den
C13_Nearest(v, num, den) ==
    /\ 2 * (den * v - num) <= den
    /\ 2 * (num - den * v) <= den

(* C13: for every saturation s = k/SatDen in [0,1], every entry and every  *)
(* channel, the value get_palette returns is d*(1-s) + t*s rounded to the   *)
(* nearest integer, d and t being the desaturated and saturated anchors.    *)
C13_ChannelsAreRounded ==
    PaletteReturned =>
        \A e \in 1..8 : \A c \in 1..4 :
            C13_Nearest(qz.palette[e][c],
                        DESATURATED_PALETTE[e][c] * (SatDen - qz.saturation)
                            + SATURATED_PALETTE[e][c] * qz.saturation,
                        SatDen)

\* the anchor tables, Black, White, Green, Blue, Red, Yellow, Orange,
\* Transparent
C14_Desaturated ==
    <<<<0, 0, 0, 255>>, <<255, 255, 255, 255>>, <<0, 255, 0, 255>>,
      <<0, 0, 255, 255>>, <<255, 0, 0, 255>>, <<255, 255, 0, 255>>,
      <<255, 140, 0, 255>>, <<0, 0, 0, 0>> >>
C14_Saturated ==
    <<<<50, 37, 54, 255>>, <<193, 198, 192, 255>>, <<51, 93, 86, 255>>,
      <<63, 57, 100, 255>>, <<159, 81, 68, 255>>, <<176, 164, 78, 255>>,
      <<160, 114, 76, 255>>, <<0, 0, 0, 0>> >>

(* C14: get_palette(0) is the desaturated anchor table and get_palette(1)  *)
(* the saturated anchor table, entry by entry and channel by channel, in    *)
(* the order Black, White, Green, Blue, Red, Yellow, Orange, Transparent.   *)
C14_EndpointsAreAnchors ==
    PaletteReturned =>
        /\ Len(qz.palette) = 8
        /\ qz.saturation = 0 => qz.palette = C14_Desaturated
        /\ qz.saturation = SatDen => qz.palette = C14_Saturated

\* get_palette(1) has returned, Red being its fifth entry
C14_Witness ==
    /\ PaletteReturned
    /\ qz.saturation = SatDen
    /\ qz.palette[5] = <<159, 81, 68, 255>>

---------------------------------------------------------------------------
\* a byte is being put on the bus, or is about to be
BusWriteUnderWay == Top \in {"sw_cs_low", "sw_set_dc", "sw_loop", "sw_cs_high"}


(* C15 as stated: in the traffic of a call, every write of the reset line  *)
(* is followed by a 100 ms sleep before anything else happens, the four     *)
(* writes being low, high, low, high; no bus write precedes the first busy  *)
(* wait that returned; the reset line is high during every bus write.       *)
C15_EveryStageSettles ==
    LET t == Trace IN
    /\ \A i \in DOMAIN t :
           t[i].k = "reset" /\ i < Len(t) =>
               t[i + 1] = [k |-> "sleep", ms |-> 100]
    /\ BusWriteUnderWay => pins.reset = "high"

\* the reset pulse as setup drives it, up to the busy wait that follows it
C15_Pulse ==
    <<[k |-> "reset", v |-> "low"], [k |-> "sleep", ms |-> 100],
      [k |-> "reset", v |-> "high"], [k |-> "sleep", ms |-> 100],
      [k |-> "reset", v |-> "low"], [k |-> "sleep", ms |-> 100],
      [k |-> "reset", v |-> "high"],
      [k |-> "busy_wait", ms |-> 10000]>>

(* C15, amended: the traffic of a call starts with reset low, 100 ms,      *)
(* reset high, 100 ms, reset low, 100 ms, reset high and then, with no      *)
(* delay of its own, the busy wait; no bus write precedes the return of     *)
(* that busy wait, the reset line is not written again after it, and it is  *)
(* high during every bus write.                                             *)
C15_ResetPulseThenBusyWait ==
    LET t == Trace IN
    /\ IsPrefix(SubSeq(t, 1, Min(Len(t), Len(C15_Pulse))), C15_Pulse)
    /\ \A i \in DOMAIN t : i > Len(C15_Pulse) => t[i].k \notin {"reset", "sleep"}
    /\ BusWriteUnderWay => pins.reset = "high" /\ Len(t) >= Len(C15_Pulse)

\* a command of the setup that update runs is being written
C15_Witness ==
    /\ BusWriteUnderWay
    /\ OnStack("setup_q")
    /\ OnStack("update_q")
    /\ pins.reset = "high"
    /\ Len(Trace) > Len(C15_Pulse)

---------------------------------------------------------------------------
\* send_command(16, data) has returned Ok
C16_Returned == pc = <<>> /\ ret = "ok" /\ log # <<>>

(* C16: the traffic of a send_command(c, data) call is at most two         *)
(* chip-select frames and nothing outside them: no byte is written with     *)
(* chip-select high, no frame sees the data/command line change after its   *)
(* first byte; only the last frame may be open; the first has the line low  *)
(* and carries c alone, the second, opened only when the first is closed,   *)
(* has the line high and carries a prefix of data; when the call has        *)
(* returned Ok both are closed and the second carries the whole of data.    *)
C16_CommandThenDataFrames ==
    /\ \A i \in DOMAIN log : log[i].k = "frame"
    /\ \A i \in DOMAIN log : log[i].open => i = Len(log)
    /\ \A i \in DOMAIN log : log[i].bytes # <<>> => log[i].dc \in {"low", "high"}
    /\ Len(log) <= 2
    /\ Top = "sw_loop" => pins.cs = "low" /\ LastOpen(log)
    /\ Len(log) >= 1 =>
          /\ log[1].dc \in {"unset", "low"}
          /\ IsPrefix(log[1].bytes, <<16>>)
    /\ Len(log) = 2 =>
          /\ log[1] = [k |-> "frame", dc |-> "low", bytes |-> <<16>>,
                       open |-> FALSE]
          /\ log[2].dc \in {"unset", "high"}
          /\ \E n \in PayloadLens : IsPrefix(log[2].bytes, Payload(n))
          /\ sc.data # <<>> => IsPrefix(log[2].bytes, sc.data)
    /\ C16_Returned =>
          /\ Len(log) = 2
          /\ log[2].dc = "high"
          /\ ~log[2].open
          /\ \E n \in PayloadLens : log[2].bytes = Payload(n)
          /\ pins.cs = "high"

\* a command with more than one chunk of data has been sent
C16_Witness ==
    /\ C16_Returned
    /\ Len(log) = 2
    /\ log[1].bytes = <<16>>
    /\ Len(log[2].bytes) > 64

---------------------------------------------------------------------------
\* crop_resize has computed its crop rectangle
C17_Cropped == qz.fn = "crop_resize" /\ (Top = "cr_resize" \/ pc = <<>>)

(* C17: for source W x H and target w x h, crop_resize crops cw x ch with  *)
(* 1 <= cw <= W, 1 <= ch <= H, cw = W or ch = H, both when W/H = w/h, at    *)
(* crop_x = (W - cw)/2 and crop_y = (H - ch)/2, the side that was cut being *)
(* less than one pixel away from the length that gives cw/ch = w/h exactly; *)
(* the image it returns is w x h.                                           *)
C17_CropIsCentredAndNonEmpty ==
    C17_Cropped =>
        LET W == qz.image[1]
            H == qz.image[2]
            w == qz.width
            h == qz.height
            cw == qz.crop_width
            ch == qz.crop_height
        IN /\ 1 <= cw /\ cw <= W
           /\ 1 <= ch /\ ch <= H
           /\ cw = W \/ ch = H
           /\ W * h = H * w => cw = W /\ ch = H
           /\ qz.crop_x = (W - cw) \div 2
           /\ qz.crop_y = (H - ch) \div 2
           /\ cw = W /\ ch # H =>
                  ch * w - W * h < w /\ W * h - ch * w < w
           /\ ch = H /\ cw # W =>
                  cw * h - H * w < h /\ H * w - cw * h < h
           /\ pc = <<>> /\ ret = "ok" => qz.out = <<w, h>>

---------------------------------------------------------------------------
\* a write on the serial bus, or the opening of the bus, has failed
C18_Failed == ret = "SpiError"

\* the command bytes of DTM, PON, DRF and POF
C18_TransferCommands == {16, 4, 18, 2}

\* entry e of the traffic is one of those commands, complete or in flight
C18_IsTransfer(e) ==
    \/ e.k = "cmd" /\ e.c \in C18_TransferCommands
    \/ /\ e.k = "frame" /\ e.dc = "low"
       /\ \E c \in C18_TransferCommands : e.bytes = <<c>>

\* the places an error is handed up through, and the unwrap that ends on it
C18_Propagating ==
    Top \in {"sc_data", "sd_return", "setup_q", "update_q", "show_q",
             "new_q", "new_return", "main_new_unwrap", "main_show_unwrap",
             "panic"}

(* C18: once a bus write has failed, the error is only handed up: every    *)
(* step pops one call or ends the process at the unwrap, the error value    *)
(* stays, and no line is written and nothing is sent afterwards, so no      *)
(* command is issued and nothing is retried; and when the traffic of the    *)
(* call does not hold a complete setup sequence, it holds no DTM, PON, DRF  *)
(* or POF.                                                                  *)
C18_BusErrorIsFatal ==
    /\ [](C18_Failed =>
            /\ C18_Propagating
            /\ LET t == Trace IN
               ~IsPrefix(ExpectedSetup, t) =>
                   \A i \in DOMAIN t : ~C18_IsTransfer(t[i]))
    /\ [][C18_Failed =>
            /\ ret' = ret
            /\ log' = log
            /\ pins' = pins
            /\ pc' = Tail(pc) \/ pc' = <<"panic">>]_vars

\* a write failed inside the setup run by update, and show returned the error
C18_Witness ==
    /\ C18_Failed
    /\ Top = "main_show_unwrap"
    /\ mn.shows >= 1
    /\ Len(Trace) > 8
    /\ ~IsPrefix(ExpectedSetup, Trace)

---------------------------------------------------------------------------
\* show is running: called and not yet returned
C19_InShow == Top = "show" \/ OnStack("show_q")

\* the traffic of the call holds a complete DTM command
C19_FrameSent == \E i \in DOMAIN Trace : Trace[i].k = "cmd" /\ Trace[i].c = 16

(* C19: no step taken while show runs changes a cell of the frame buffer;  *)
(* and when show was called again with no set_pixel since the show before,  *)
(* the data of its DTM command is, byte for byte, the data of the DTM       *)
(* command of that show.                                                    *)
C19_ShowOnlyReads ==
    /\ [][C19_InShow => buf' = buf]_vars
    /\ [](mn.prev.has =>
            LET t == Trace IN
            \A i \in DOMAIN t :
                t[i].k = "cmd" /\ t[i].c = 16 => t[i].data = mn.prev.data)

\* a second show of the same buffer, holding a 7, has sent its frame
C19_Witness ==
    /\ mn.prev.has
    /\ mn.shows = 2
    /\ C19_FrameSent
    /\ OnStack("show_q")
    /\ \E y \in DOMAIN buf : \E x \in DOMAIN buf[y] : buf[y][x] = 7

---------------------------------------------------------------------------
\* main is in its loop over the quantized buffer, ix cells done
C20_InLoop == Top = "main_set_pixel"

\* cell (x, y) of the frame buffer, x and y counted from 0
C20_CellAt(b, x, y) == b[y + 1][x + 1]

(* C20: in main's loop the quantized buffer q has width*height entries and *)
(* the cells of the indices done so far hold their entries of q; a step of  *)
(* the loop is a set_pixel call with x = ix % width < width and             *)
(* y = ix / width < height that writes q[ix] into cell (x, y), changes no   *)
(* other cell and moves on to ix + 1 without panicking; every cell is the   *)
(* cell of exactly one ix; while the show that follows runs, cell (x, y)    *)
(* holds q[y*width + x] and byte k of the data of its DTM command is        *)
(* 16*f(q[2k]) + f(q[2k+1]).                                                *)
C20_LoopFillsEveryCellOnce ==
    /\ [](C20_InLoop =>
            /\ Len(mn.q) = Width * Height
            /\ mn.ix <= Len(mn.q)
            /\ \A j \in 0..(mn.ix - 1) :
                   C20_CellAt(buf, j % Width, j \div Width) = mn.q[j + 1]
            /\ \A x \in 0..(Width - 1) : \A y \in 0..(Height - 1) :
                   Cardinality({j \in 0..(Len(mn.q) - 1) :
                                   j % Width = x /\ j \div Width = y}) = 1)
    /\ [](OnStack("main_show_unwrap") /\ OnStack("show_q") =>
            /\ \A x \in 0..(Width - 1) : \A y \in 0..(Height - 1) :
                   C20_CellAt(buf, x, y) = mn.q[y * Width + x + 1]
            /\ LET t == Trace IN
               \A i \in DOMAIN t :
                   t[i].k = "cmd" /\ t[i].c = 16 =>
                       \A k \in 0..(Len(t[i].data) - 1) :
                           t[i].data[k + 1] =
                               16 * C7_F(mn.q[2 * k + 1])
                                   + C7_F(mn.q[2 * k + 2]))
    /\ [][C20_InLoop /\ mn.ix < Len(mn.q) =>
            LET x == mn.ix % Width
                y == mn.ix \div Width
            IN /\ x < Width /\ y < Height
               /\ Top' = "main_set_pixel"
               /\ mn'.ix = mn.ix + 1
               /\ mn'.q = mn.q
               /\ C20_CellAt(buf', x, y) = mn.q[mn.ix + 1]
               /\ \A u \in 0..(Width - 1) : \A v \in 0..(Height - 1) :
                      <<u, v>> # <<x, y>> =>
                          C20_CellAt(buf', u, v) = C20_CellAt(buf, u, v)]_vars

\* main has filled a two-row buffer and its show has sent the frame
C20_Witness ==
    /\ OnStack("main_show_unwrap") /\ OnStack("show_q")
    /\ mn.shows = 1
    /\ Width = 2 /\ Height = 2
    /\ mn.q = <<7, 3, 0, 3>>
    /\ \E i \in DOMAIN Trace : Trace[i].k = "cmd" /\ Trace[i].c = 16

---------------------------------------------------------------------------
\* the labels of spi_write
C21_InSpiWrite == Top \in {"sw_cs_low", "sw_set_dc", "sw_loop", "sw_cs_high"}

(* C21: whenever spi_write returns, with Ok or with an error, the          *)
(* chip-select line is high: no return of spi_write leaves the frame open   *)
(* (chip-select low).                                                       *)
C21_ReturnsWithChipSelectHigh ==
    [][C21_InSpiWrite /\ pc' = Tail(pc) => pins'.cs = "high"]_vars

---------------------------------------------------------------------------
\* the resolution a TRES parameter block configures: two big-endian pairs
C22_TresWidth(d) == d[1] * 256 + d[2]
C22_TresHeight(d) == d[3] * 256 + d[4]

(* C22: when show has sent its frame with DTM, the frame has                *)
(* width * height / 2 bytes for the width and height of the descriptor      *)
(* initialize_inky accepted, and these are the width and height setup wrote *)
(* to the resolution register TRES in the same call.                        *)
C22_FrameMatchesResolution ==
    LET t == Trace IN
    \A i \in DOMAIN t : \A j \in DOMAIN t :
        /\ t[i].k = "cmd" /\ t[i].c = AC073TC1_TRES
        /\ t[j].k = "cmd" /\ t[j].c = AC073TC1_DTM
        => /\ Len(t[i].data) = 4
           /\ C22_TresWidth(t[i].data) = Width
           /\ C22_TresHeight(t[i].data) = Height
           /\ Len(t[j].data) =
                  (C22_TresWidth(t[i].data) * C22_TresHeight(t[i].data)) \div 2


====
